---- MODULE Spec2Model ----
(***************************************************************************)
(* Model of the Jira forwarding gateway of server.js.                      *)
(*                                                                         *)
(* Every route handler is an async function: it runs synchronously up to   *)
(* an outbound call (fetch / https.request), is suspended there, and is    *)
(* resumed by the reply or by a transport exception.  One action models    *)
(* the synchronous entry of a handler, one action models each resumption.  *)
(* The remote service is the environment: its replies are chosen with \E.  *)
(***************************************************************************)
EXTENDS Integers, Sequences, FiniteSets, TLC

VARIABLES
    jiraDomain,   \* JIRA_DOMAIN, read once at startup
    req,          \* req[r]   : the inbound request handled in slot r
    pc,           \* pc[r]    : where the handler of slot r is suspended
    loc,          \* loc[r]   : the handler's local variables
    calls,        \* calls[r] : outbound calls issued for the request, in order
    resp,         \* resp[r]  : responses sent to the caller, in order
    files,        \* temp files present in uploads/
    served,       \* number of inbound requests accepted so far
    console       \* per request: what its handler logged about the credential

vars == <<jiraDomain, req, pc, loc, calls, resp, files, served, console>>

----------------------------------------------------------------------------
(* Bounds *)

MaxRequests == 2      \* inbound requests accepted in one behaviour
MaxEmails   == 2      \* length of additionalEmails
MaxUsers    == 2      \* users returned by one user search

Reqs == {"r1"}

----------------------------------------------------------------------------
(* Values *)

NoCred == ""                              \* absent / empty credential (falsy)
Creds  == {"Basic credA", "Basic credB"}
AuthValues == {NoCred} \cup Creds
\* the generic proxy is also tried with a credential of another scheme
ProxyAuthValues == AuthValues \cup {"Bearer tokC"}

HardHost    == "mmn-service.atlassian.net"      \* host written into the handlers
DefaultHost == "your-domain.atlassian.net"      \* fallback of JIRA_DOMAIN
EnvDomains  == {"", "acme.atlassian.net"}       \* process.env.JIRA_DOMAIN ("" = unset)
UrlHosts    == {HardHost, "evil.example"}       \* hosts a caller can put in ?url=

IssueKeys  == {"K-1"}
Emails     == {"a@x", "b@x"}
\* additionalEmails is a prefix of this list
Recipients == <<"a@x", "b@x", "c@x", "d@x">>
EmailLists == {SubSeq(Recipients, 1, n) : n \in 0..MaxEmails}
\* the accounts of the remote service, in the order a search lists them
Accounts   == <<"acc1", "acc2", "acc3">>

\* response.ok of the fetch API
Ok(status) == status >= 200 /\ status <= 299

\* remote statuses the environment answers with
Statuses == {200, 204, 404}

\* a remote reply: a response (status, body) or a transport exception
\* body.type: "json" (parses), "text" (non-empty, does not parse), "empty"
BodyTypes == {"json", "text", "empty"}
ThrowMsgs == {"ECONNRESET"}

\* HTTP: a 204 carries no body
WellFormed(status, btype) == status = 204 => btype = "empty"

\* what the remote service (or the network) answers to one outbound call
\* shape: for a JSON error body, which of errorMessages / errors it has
\* clen0: the reply has the header content-length: 0
\* items: the attachment array of an issue body
Reply(throw, status, btype, msg, users) ==
    [throw |-> throw, status |-> status, btype |-> btype, msg |-> msg, users |-> users,
     shape |-> "", clen0 |-> FALSE, items |-> <<>>]

Thrown == {Reply(TRUE, 0, "empty", m, <<>>) : m \in ThrowMsgs}

Responses ==
    {Reply(FALSE, sb[1], sb[2], "", <<>>) :
        sb \in {x \in Statuses \X BodyTypes : WellFormed(x[1], x[2])}}

Replies == Responses \cup Thrown

----------------------------------------------------------------------------
(* Request and response records *)

NoFile == 0            \* req.file is undefined

\* an inbound request; fields an operation does not read keep their default
BlankReq ==
    [op |-> "none", auth |-> NoCred, issueKey |-> "K-1", file |-> NoFile,
     url |-> "", email |-> "", subject |-> "", message |-> "",
     emails |-> <<>>, projectType |-> "", method |-> "GET",
     path |-> <<>>, query |-> ""]

BlankLoc == [users |-> <<>>, idx |-> 0, accountId |-> ""]

\* body of a response to the caller
\*   kind: "error" ({error: text}), "success" ({success: true, ...}),
\*         "data" (relayed / reshaped remote data), "none" (no body)
\*   obj, items: the object or the array of a reshaped "data" body
NoObj == <<>>
RespBody(kind, text, warning) ==
    [kind |-> kind, text |-> text, warning |-> warning, obj |-> NoObj, items |-> <<>>]

ErrorBody(text) == RespBody("error", text, FALSE)

\* mutation: the response is sent twice
RespondTwice(r, status, body) ==
    resp' = [resp EXCEPT ![r] = Append(Append(@, [status |-> status, body |-> body]),
                                       [status |-> status, body |-> body])]

\* res.status(s).json(b) / res.status(s).send()
Respond(r, status, body) ==
    resp' = [resp EXCEPT ![r] = Append(@, [status |-> status, body |-> body])]

\* a call whose path and JSON body the model does not detail
NoPath == <<>>
NoDoc  == [type |-> "none", version |-> 0, content |-> <<>>]

\* fetch(...) / https.request(...): record the outbound call
\* reply: "pending" while the handler is suspended on the call, then
\* "response", "throw" (the awaited promise was rejected) or "aborted"; the
\* other reply fields record what the remote answered
OutCall(step, host, auth, arg) ==
    [step |-> step, host |-> host, auth |-> auth, arg |-> arg,
     reply |-> "pending", status |-> 0, btype |-> "empty", msg |-> "", users |-> <<>>,
     shape |-> "", clen0 |-> FALSE, items |-> <<>>, path |-> NoPath, doc |-> NoDoc]

\* mutation: the next call is issued while the last one is still in flight
SettleLater(cs, rep) == cs

\* the pending (last) call of a request gets its reply
Settle(cs, rep) ==
    [cs EXCEPT ![Len(cs)] = [@ EXCEPT !.reply = IF rep.throw THEN "throw" ELSE "response",
                                      !.status = rep.status, !.btype = rep.btype,
                                      !.msg = rep.msg, !.users = rep.users,
                                      !.shape = rep.shape, !.clen0 = rep.clen0,
                                      !.items = rep.items]]

\* mutation: the presence check is dropped
MissingNever(v) == FALSE

\* mutation: the credential is checked against a known value
MissingOrUnknown(v) == v # "Basic credA"

\* !authHeader : the only inspection of the credential that decides control flow
Missing(v) == v = ""

\* a slot can accept a new inbound request
Free(r) == pc[r] \in {"idle", "done"} /\ served < MaxRequests

\* authHeader.substring(0, 20): the two Basic credentials of the model stand
\* for strings that differ only after their first 20 characters
First20(auth) ==
    IF auth \in {"Basic credA", "Basic credB"} THEN "Basic cred" ELSE auth

\* authHeader.startsWith('Basic ')
StartsWithBasic(auth) == auth \in {"Basic credA", "Basic credB"}

\* Buffer.from(authHeader.split(' ')[1], 'base64').toString('utf-8').split(':')
DecodedCredentials(auth) ==
    IF auth = "Basic credA" THEN <<"alice@x", "tokA">>
    ELSE IF auth = "Basic credB" THEN <<"bob@x">>
    ELSE <<>>

\* the generic proxy's console lines that show the credential: the preview
\* of the header, the decoded email and format check of a Basic credential,
\* and the dump of the outbound headers
ProxyLog(auth) ==
    <<IF auth = NoCred THEN "NONE" ELSE First20(auth)>>
    \o (IF StartsWithBasic(auth)
        THEN <<DecodedCredentials(auth)[1],
               IF Len(DecodedCredentials(auth)) > 1 THEN "true" ELSE "false">>
        ELSE <<>>)
    \o (IF auth = NoCred THEN <<>> ELSE <<auth>>)

\* what the handler of request q prints that shows the credential;
\* add-attachment prints req.body, of which authHeader is a field
Diagnostics(q) ==
    IF q.op = "proxy" THEN ProxyLog(q.auth)
    ELSE IF q.op = "add-attachment" THEN <<q.auth>>
    ELSE <<>>

\* express hands a new inbound request to a handler
Accept(r, q) ==
    /\ req'   = [req EXCEPT ![r] = q]
    /\ loc'   = [loc EXCEPT ![r] = BlankLoc]
    /\ served' = served + 1
    /\ console' = [console EXCEPT ![r] = Diagnostics(q)]

\* the handler returns after res.status(s).json(b) without any outbound call
Reject(r, status, text) ==
    /\ resp'  = [resp EXCEPT ![r] = <<[status |-> status, body |-> ErrorBody(text)]>>]
    /\ calls' = [calls EXCEPT ![r] = <<>>]
    /\ pc'    = [pc EXCEPT ![r] = "done"]

\* the handler issues its first outbound call and is suspended at label l
FirstCall(r, c, l) ==
    /\ resp'  = [resp EXCEPT ![r] = <<>>]
    /\ calls' = [calls EXCEPT ![r] = <<c>>]
    /\ pc'    = [pc EXCEPT ![r] = l]

\* resumed by reply rep, the handler sends its response and finishes
Finish(r, rep, status, body) ==
    /\ calls' = [calls EXCEPT ![r] = Settle(@, rep)]
    /\ Respond(r, status, body)
    /\ pc' = [pc EXCEPT ![r] = "done"]

\* mutation: the next call is issued twice
NextCallTwice(r, rep, c, l) ==
    /\ calls' = [calls EXCEPT ![r] = Append(Append(Settle(@, rep),
                                                  [c EXCEPT !.reply = "response"]), c)]
    /\ pc' = [pc EXCEPT ![r] = l]
    /\ UNCHANGED resp

\* resumed by reply rep, the handler issues call c and is suspended at label l
NextCall(r, rep, c, l) ==
    /\ calls' = [calls EXCEPT ![r] = Append(Settle(@, rep), c)]
    /\ pc' = [pc EXCEPT ![r] = l]
    /\ UNCHANGED resp

\* mutation: the catch block hides the exception's message
CaughtGeneric(r, rep, msg) == Finish(r, rep, 500, ErrorBody("Internal Server Error"))

\* catch (error) { res.status(500).json({ error: error.message }) }
Caught(r, rep, msg) == Finish(r, rep, 500, ErrorBody(msg))

\* what response.json() / JSON.parse throws on a body that is not JSON
SyntaxErr == "SyntaxError"

\* what reading a property of undefined throws
TypeErr == "TypeError"

----------------------------------------------------------------------------
(* Startup *)

Init ==
    /\ \E env \in EnvDomains :
          jiraDomain = IF env # "" THEN env ELSE DefaultHost
    /\ req   = [r \in Reqs |-> BlankReq]
    /\ pc    = [r \in Reqs |-> "idle"]
    /\ loc   = [r \in Reqs |-> BlankLoc]
    /\ calls = [r \in Reqs |-> <<>>]
    /\ resp  = [r \in Reqs |-> <<>>]
    /\ files = {}
    /\ served = 0
    /\ console = [r \in Reqs |-> <<>>]

----------------------------------------------------------------------------
(* POST /add-comment *)

CommentKeys == {"K-1", "K-2"}
Comments    == {"Hello", "Bye"}

\* mutation: the text is split over two text nodes
CommentDocSplit(text) ==
    [type |-> "doc", version |-> 1,
     content |-> <<[type |-> "paragraph",
                    content |-> <<[type |-> "text", text |-> text],
                                  [type |-> "text", text |-> ""]>>]>>]

\* body: { type: 'doc', version: 1, content: [{ type: 'paragraph',
\*         content: [{ type: 'text', text: comment }] }] }
CommentDoc(text) ==
    [type |-> "doc", version |-> 1,
     content |-> <<[type |-> "paragraph",
                    content |-> <<[type |-> "text", text |-> text]>>]>>]

\* POST https://mmn-service.atlassian.net/rest/api/3/issue/${issueKey}/comment
CommentCall(auth, key, text) ==
    [OutCall("comment", HardHost, auth, <<text>>)
        EXCEPT !.path = <<"rest", "api", "3", "issue", key, "comment">>,
               !.doc  = CommentDoc(text)]

AddComment(r) ==
    /\ Free(r)
    /\ \E auth \in AuthValues, key \in CommentKeys, comment \in Comments :
          LET q == [BlankReq EXCEPT !.op = "add-comment", !.auth = auth,
                                    !.issueKey = key, !.message = comment]
          IN  /\ Accept(r, q)
              /\ IF Missing(auth)
                 THEN Reject(r, 401, "Authorization required")
                 ELSE FirstCall(r, CommentCall(auth, key, comment), "comment_fetch")
    /\ UNCHANGED <<jiraDomain, files>>

\* mutation: a rejection is answered with a status of the gateway's own
RelayJsonBadGateway(r, rep) ==
    IF rep.throw THEN Caught(r, rep, rep.msg)
    ELSE IF Ok(rep.status)
    THEN IF rep.btype = "json"
         THEN Finish(r, rep, 200, RespBody("data", "", FALSE))
         ELSE Caught(r, rep, SyntaxErr)
    ELSE Finish(r, rep, 502, ErrorBody(rep.btype))

\* the shape shared by the single-call JSON handlers:
\*   if (response.ok) { data = await response.json(); res.status(200).json(..) }
\*   else { data = await response.text(); res.status(response.status).json({error: data}) }
\*   catch (error) { res.status(500).json({ error: error.message }) }
RelayJson(r, rep) ==
    IF rep.throw THEN Caught(r, rep, rep.msg)
    ELSE IF Ok(rep.status)
    THEN IF rep.btype = "json"
         THEN Finish(r, rep, 200, RespBody("data", "", FALSE))
         ELSE Caught(r, rep, SyntaxErr)
    ELSE Finish(r, rep, rep.status, ErrorBody(rep.btype))

AddCommentReply(r) ==
    /\ pc[r] = "comment_fetch"
    /\ \E rep \in Replies : RelayJson(r, rep)
    /\ UNCHANGED <<jiraDomain, req, console, loc, files, served>>

----------------------------------------------------------------------------
(* POST /add-attachment *)

\* multer's upload.single('file') runs before the handler: an uploaded file
\* is stored under uploads/ with a fresh name
StoredPath == served + 1

\* mutation: the catch block forgets the temp file
UnlinkIfExistsSkip(fs, f) == fs

\* the catch block: if (req.file && fs.existsSync(req.file.path)) unlinkSync
UnlinkIfExists(fs, f) == IF f # NoFile /\ f \in fs THEN fs \ {f} ELSE fs

\* mutation: the cleanup empties uploads/
UnlinkAll(fs, f) == {}

\* fs.unlinkSync(req.file.path) after the upload promise resolved
Unlink(fs, f) == fs \ {f}

\* mutation: the upload is attempted without a file
NoUploadNever(f) == FALSE

\* if (!req.file)
NoUpload(f) == f = NoFile

AddAttachment(r) ==
    /\ Free(r)
    /\ \E auth \in AuthValues, key \in IssueKeys, hasFile \in BOOLEAN :
          LET f == IF hasFile THEN StoredPath ELSE NoFile
              q == [BlankReq EXCEPT !.op = "add-attachment", !.auth = auth,
                                    !.issueKey = key, !.file = f]
          IN  /\ Accept(r, q)
              /\ files' = IF hasFile THEN files \cup {f} ELSE files
              /\ IF Missing(auth)
                 THEN Reject(r, 401, "Authorization required")
                 ELSE IF NoUpload(f)
                 THEN Reject(r, 400, "No file uploaded")
                 ELSE FirstCall(r, OutCall("upload", HardHost, auth, <<>>), "upload")
    /\ UNCHANGED jiraDomain

AddAttachmentReply(r) ==
    /\ pc[r] = "upload"
    /\ \E rep \in Replies :
          IF rep.throw
          THEN \* request 'error': the promise rejects, the catch block runs
               /\ files' = UnlinkIfExists(files, req[r].file)
               /\ Caught(r, rep, rep.msg)
          ELSE \* response 'end': the promise resolves with status and data
               /\ files' = Unlink(files, req[r].file)
               /\ IF Ok(rep.status)
                  THEN Finish(r, rep, 200, RespBody("data", rep.btype, FALSE))
                  ELSE Finish(r, rep, rep.status, ErrorBody(rep.btype))
    /\ UNCHANGED <<jiraDomain, req, console, loc, served>>

\* The response stream fails or is aborted after the response callback ran:
\* 'end' never fires and request 'error' does not fire either, so the upload
\* promise is never settled and the handler stays suspended.
AddAttachmentStall(r) ==
    /\ pc[r] = "upload"
    /\ calls' = [calls EXCEPT ![r] = [@ EXCEPT ![Len(@)].reply = "aborted"]]
    /\ pc' = [pc EXCEPT ![r] = "upload_hung"]
    /\ UNCHANGED <<jiraDomain, req, console, loc, resp, files, served>>

----------------------------------------------------------------------------
(* POST /list-attachments *)

ListAttachments(r) ==
    /\ Free(r)
    /\ \E auth \in AuthValues, key \in IssueKeys :
          LET q == [BlankReq EXCEPT !.op = "list-attachments", !.auth = auth,
                                    !.issueKey = key]
          IN  /\ Accept(r, q)
              /\ IF Missing(auth)
                 THEN Reject(r, 401, "Authorization required")
                 ELSE FirstCall(r, OutCall("list", HardHost, auth, <<>>), "list_fetch")
    /\ UNCHANGED <<jiraDomain, files>>

\* the attachment arrays of the remote issue
Attachments == {<<>>, <<"att1">>, <<"att1", "att2">>}

\* the JSON bodies of a successful reply:
\*   "attached"      fields.attachment is an array
\*   "noattachment"  a fields object without attachment
\*   "nofields"      no fields object
ListReplies ==
    (Replies \ {Reply(FALSE, 200, "json", "", <<>>)})
    \cup {[Reply(FALSE, 200, "json", "", <<>>) EXCEPT !.shape = "attached", !.items = a] :
             a \in Attachments}
    \cup {[Reply(FALSE, 200, "json", "", <<>>) EXCEPT !.shape = sh] :
             sh \in {"noattachment", "nofields"}}

\* mutation: only the first attachment is returned
AttachmentsOfFirst(rep) ==
    IF rep.shape = "attached" /\ Len(rep.items) > 0 THEN <<rep.items[1]>> ELSE <<>>

\* data.fields?.attachment || []
AttachmentsOf(rep) == IF rep.shape = "attached" THEN rep.items ELSE <<>>

ListAttachmentsReply(r) ==
    /\ pc[r] = "list_fetch"
    /\ \E rep \in ListReplies :
          IF rep.throw THEN Caught(r, rep, rep.msg)
          ELSE IF Ok(rep.status)
          THEN IF rep.btype = "json"
               THEN Finish(r, rep, 200,
                           [RespBody("data", "", FALSE) EXCEPT !.items = AttachmentsOf(rep)])
               ELSE Caught(r, rep, SyntaxErr)
          ELSE Finish(r, rep, rep.status, ErrorBody(rep.btype))
    /\ UNCHANGED <<jiraDomain, req, console, loc, files, served>>

----------------------------------------------------------------------------
(* GET /download-attachment?url=&auth= *)

\* fetch(url, ...): the request goes to the host of the caller's url
DownloadHost(url) == url

DownloadAttachment(r) ==
    /\ Free(r)
    /\ \E auth \in AuthValues, url \in UrlHosts \cup {""} :
          LET q == [BlankReq EXCEPT !.op = "download-attachment", !.auth = auth,
                                    !.url = url]
          IN  /\ Accept(r, q)
              /\ IF Missing(auth)
                 THEN Reject(r, 401, "Authorization required")
                 ELSE IF Missing(url)
                 THEN Reject(r, 400, "URL required")
                 ELSE FirstCall(r, OutCall("download", DownloadHost(url), auth, <<>>),
                                "download_fetch")
    /\ UNCHANGED <<jiraDomain, files>>

DownloadAttachmentReply(r) ==
    /\ pc[r] = "download_fetch"
    /\ \E rep \in Replies :
          IF rep.throw THEN Caught(r, rep, rep.msg)
          ELSE IF Ok(rep.status)
          THEN Finish(r, rep, 200, RespBody("bytes", rep.btype, FALSE))
          ELSE Finish(r, rep, rep.status, ErrorBody("Failed to download attachment"))
    /\ UNCHANGED <<jiraDomain, req, console, loc, files, served>>

----------------------------------------------------------------------------
(* POST /get-issue-reporter *)

GetIssueReporter(r) ==
    /\ Free(r)
    /\ \E auth \in AuthValues, key \in IssueKeys :
          LET q == [BlankReq EXCEPT !.op = "get-issue-reporter", !.auth = auth,
                                    !.issueKey = key]
          IN  /\ Accept(r, q)
              /\ IF Missing(auth)
                 THEN Reject(r, 401, "Authorization required")
                 ELSE FirstCall(r, OutCall("issue", HardHost, auth, <<>>), "reporter_fetch")
    /\ UNCHANGED <<jiraDomain, files>>

\* the JSON bodies of a successful reply:
\*   "issue"       key and a fields object with the four requested fields
\*   "unassigned"  the same with assignee: null
\*   "nofields"    no fields object
ReporterReplies ==
    (Replies \ {Reply(FALSE, 200, "json", "", <<>>)})
    \cup {[Reply(FALSE, 200, "json", "", <<>>) EXCEPT !.shape = sh] :
             sh \in {"issue", "unassigned", "nofields"}}

\* key and fields of the remote issue in a reply of shape sh
RemoteKey == "K-1"
RemoteFields(sh) ==
    [summary |-> "Sum", reporter |-> "acc1",
     assignee |-> IF sh = "unassigned" THEN "null" ELSE "acc2", creator |-> "acc3"]

\* mutation: only the four requested fields are returned
ReporterViewFields(rep) ==
    [summary  |-> RemoteFields(rep.shape).summary,
     reporter |-> RemoteFields(rep.shape).reporter,
     assignee |-> RemoteFields(rep.shape).assignee,
     creator  |-> RemoteFields(rep.shape).creator]

\* { key: data.key, summary: data.fields.summary, reporter: data.fields.reporter,
\*   assignee: data.fields.assignee, creator: data.fields.creator }
ReporterView(rep) ==
    [key      |-> RemoteKey,
     summary  |-> RemoteFields(rep.shape).summary,
     reporter |-> RemoteFields(rep.shape).reporter,
     assignee |-> RemoteFields(rep.shape).assignee,
     creator  |-> RemoteFields(rep.shape).creator]

GetIssueReporterReply(r) ==
    /\ pc[r] = "reporter_fetch"
    /\ \E rep \in ReporterReplies :
          IF rep.throw THEN Caught(r, rep, rep.msg)
          ELSE IF Ok(rep.status)
          THEN IF rep.btype # "json"
               THEN Caught(r, rep, SyntaxErr)
               ELSE IF rep.shape = "nofields"
               THEN Caught(r, rep, TypeErr)      \* data.fields is undefined
               ELSE Finish(r, rep, 200,
                           [RespBody("data", "", FALSE) EXCEPT !.obj = ReporterView(rep)])
          ELSE Finish(r, rep, rep.status, ErrorBody(rep.btype))
    /\ UNCHANGED <<jiraDomain, req, console, loc, files, served>>

----------------------------------------------------------------------------
(* User search, shared by /update-issue-reporter and /send-notification *)

\* the user arrays a search can return: at most MaxUsers users starting at
\* the first account, or the second account alone
UserLists == {SubSeq(Accounts, 1, j) : j \in 0..MaxUsers} \cup {SubSeq(Accounts, 2, 2)}

\* answers to a user search: a user array, a body that is not JSON, a
\* rejection (with either kind of body), or a transport exception
SearchReplies ==
    {Reply(FALSE, 200, "json", "", us) : us \in UserLists}
    \cup {Reply(FALSE, 200, "text", "", <<>>), Reply(FALSE, 404, "text", "", <<>>),
          Reply(FALSE, 404, "json", "", <<Accounts[1]>>)}
    \cup Thrown

\* mutation: the status of the search response is not looked at
SearchFailedNever(rep) == FALSE

\* if (!searchResponse.ok)
SearchFailed(rep) == ~Ok(rep.status)

\* if (!users || users.length === 0)
NoUserFound(users) == Len(users) = 0

\* mutation: the last match is taken instead of the first
FirstAccountLast(users) == IF Len(users) = 0 THEN "" ELSE users[Len(users)]

\* users[0].accountId
FirstAccount(users) == IF Len(users) = 0 THEN "" ELSE users[1]

----------------------------------------------------------------------------
(* POST /update-issue-reporter *)

UpdateIssueReporter(r) ==
    /\ Free(r)
    /\ \E auth \in AuthValues, key \in IssueKeys, email \in Emails \cup {""} :
          LET q == [BlankReq EXCEPT !.op = "update-issue-reporter", !.auth = auth,
                                    !.issueKey = key, !.email = email]
          IN  /\ Accept(r, q)
              /\ IF Missing(auth)
                 THEN Reject(r, 401, "Authorization required")
                 ELSE IF Missing(email)
                 THEN Reject(r, 400, "Reporter email required")
                 ELSE FirstCall(r, OutCall("search", HardHost, auth, <<email>>),
                                "search_fetch")
    /\ UNCHANGED <<jiraDomain, files>>

UpdateSearchReply(r) ==
    /\ pc[r] = "search_fetch"
    /\ \E rep \in SearchReplies :
          IF rep.throw
          THEN Caught(r, rep, rep.msg) /\ UNCHANGED loc
          ELSE IF SearchFailed(rep)
          THEN Finish(r, rep, 400, ErrorBody("User not found with that email"))
               /\ UNCHANGED loc
          ELSE IF rep.btype # "json"
          THEN Caught(r, rep, SyntaxErr) /\ UNCHANGED loc
          ELSE IF NoUserFound(rep.users)
          THEN Finish(r, rep, 400, ErrorBody("No user found with that email address"))
               /\ UNCHANGED loc
          ELSE LET accountId == FirstAccount(rep.users)
               IN  /\ loc' = [loc EXCEPT ![r].accountId = accountId]
                   /\ NextCall(r, rep,
                               OutCall("update", HardHost, req[r].auth, <<accountId>>),
                               "update_fetch")
    /\ UNCHANGED <<jiraDomain, req, console, files, served>>

\* if (updateResponse.ok || updateResponse.status === 204)
UpdateSucceeded(status) == Ok(status) \/ status = 204

\* mutation: a rejected update call is issued once more
UpdateReplyRetry(r) ==
    /\ pc[r] = "update_fetch"
    /\ \E rep \in Replies :
          IF rep.throw THEN Caught(r, rep, rep.msg)
          ELSE IF UpdateSucceeded(rep.status)
          THEN Finish(r, rep, 200, RespBody("success", loc[r].accountId, FALSE))
          ELSE IF Len(calls[r]) < 3
          THEN NextCall(r, rep,
                        OutCall("update", HardHost, req[r].auth, <<loc[r].accountId>>),
                        "update_fetch")
          ELSE Finish(r, rep, rep.status, ErrorBody(rep.btype))
    /\ UNCHANGED <<jiraDomain, req, console, loc, files, served>>

UpdateReply(r) ==
    /\ pc[r] = "update_fetch"
    /\ \E rep \in Replies :
          IF rep.throw THEN Caught(r, rep, rep.msg)
          ELSE IF UpdateSucceeded(rep.status)
          THEN Finish(r, rep, 200, RespBody("success", loc[r].accountId, FALSE))
          ELSE Finish(r, rep, rep.status, ErrorBody(rep.btype))
    /\ UNCHANGED <<jiraDomain, req, console, loc, files, served>>

----------------------------------------------------------------------------
(* POST /send-notification *)

Subjects == {"", "Subj"}
Messages == {"", "Msg"}

\* mutation: a resolved user is put in front of the list
ResolvedInFront(users, rep) ==
    IF ~rep.throw /\ Ok(rep.status) /\ rep.btype = "json" /\ Len(rep.users) > 0
    THEN <<FirstAccount(rep.users)>> \o users
    ELSE users

\* the for-loop body's effect on users: push the first match, or skip
Resolved(users, rep) ==
    IF ~rep.throw /\ Ok(rep.status) /\ rep.btype = "json" /\ Len(rep.users) > 0
    THEN Append(users, FirstAccount(rep.users))
    ELSE users

\* mutation: the notify call goes out without the caller's credential
NotifyCallNoAuth(auth, users) == OutCall("notify", HardHost, NoCred, users)

\* if (users.length > 0) to.users = users : the part of the payload's "to"
\* that comes from the searches, as the key followed by the account ids
NotifyTo(users) == IF Len(users) > 0 THEN <<"users">> \o users ELSE <<>>

NotifyCall(auth, users) == OutCall("notify", HardHost, auth, NotifyTo(users))

SendNotification(r) ==
    /\ Free(r)
    /\ \E auth \in AuthValues, key \in IssueKeys, subject \in Subjects,
          message \in Messages, emails \in EmailLists :
          LET q == [BlankReq EXCEPT !.op = "send-notification", !.auth = auth,
                                    !.issueKey = key, !.subject = subject,
                                    !.message = message, !.emails = emails]
          IN  /\ req' = [req EXCEPT ![r] = q]
              /\ served' = served + 1
              /\ console' = [console EXCEPT ![r] = Diagnostics(q)]
              /\ IF Missing(auth)
                 THEN Reject(r, 401, "Authorization required")
                      /\ loc' = [loc EXCEPT ![r] = BlankLoc]
                 ELSE IF Missing(subject) \/ Missing(message)
                 THEN Reject(r, 400, "Subject and message are required")
                      /\ loc' = [loc EXCEPT ![r] = BlankLoc]
                 ELSE IF Len(emails) > 0
                 THEN /\ FirstCall(r, OutCall("search", HardHost, auth, <<emails[1]>>),
                                   "nsearch_fetch")
                      /\ loc' = [loc EXCEPT ![r] = [BlankLoc EXCEPT !.idx = 1]]
                 ELSE /\ FirstCall(r, NotifyCall(auth, <<>>), "notify_fetch")
                      /\ loc' = [loc EXCEPT ![r] = BlankLoc]
    /\ UNCHANGED <<jiraDomain, files>>

NotifySearchReply(r) ==
    /\ pc[r] = "nsearch_fetch"
    /\ \E rep \in SearchReplies :
          LET users == Resolved(loc[r].users, rep)
              i     == loc[r].idx
              q     == req[r]
          IN  IF i < Len(q.emails)
              THEN /\ loc' = [loc EXCEPT ![r].users = users, ![r].idx = i + 1]
                   /\ NextCall(r, rep,
                               OutCall("search", HardHost, q.auth, <<q.emails[i + 1]>>),
                               "nsearch_fetch")
              ELSE /\ loc' = [loc EXCEPT ![r].users = users]
                   /\ NextCall(r, rep, NotifyCall(q.auth, users), "notify_fetch")
    /\ UNCHANGED <<jiraDomain, req, console, files, served>>

\* the JSON error bodies of the remote service:
\*   "plain"  neither a non-empty errorMessages list nor an errors object
\*   "msgs"   a non-empty errorMessages list, no errors object
\*   "errors" an errors object, no (or an empty) errorMessages list
\*   "both"   a non-empty errorMessages list and an errors object
ErrorShapes == {"plain", "msgs", "errors", "both"}

\* answers to the notify call: its body is read only when it is rejected
NotifyReplies ==
    {Reply(FALSE, 200, "empty", "", <<>>), Reply(FALSE, 204, "empty", "", <<>>),
     Reply(FALSE, 404, "text", "", <<>>)}
    \cup {[Reply(FALSE, 404, "json", "", <<>>) EXCEPT !.shape = sh] : sh \in ErrorShapes}
    \cup Thrown

\* errorMessage = errorData.errorMessages?.join(', ') || errorData.errors
\*                    ? JSON.stringify(errorData.errors) : errorText
\* the conditional binds weaker than ||: (messages || errors) ? stringify : text
\*   "undefined"  JSON.stringify(undefined): the error key is dropped from the body
\*   "errors"     the serialized errors object
\*   otherwise    the raw body text
NotifyErrorMessage(rep) ==
    IF rep.btype # "json" THEN rep.btype
    ELSE IF rep.shape \in {"msgs", "errors", "both"}
         THEN IF rep.shape = "msgs" THEN "undefined" ELSE "errors"
         ELSE rep.btype

\* answers to the follow-up comment call: its body is never read
CommentReplies == {Reply(FALSE, s, "empty", "", <<>>) : s \in Statuses} \cup Thrown

CommentText(subject, message) == <<"Notification sent", subject, message>>

\* mutation: the comment is attempted whatever the notify call returned
NotifySucceededAlways(status) == TRUE

\* if (response.ok || response.status === 204)
NotifySucceeded(status) == Ok(status) \/ status = 204

NotifyReply(r) ==
    /\ pc[r] = "notify_fetch"
    /\ \E rep \in NotifyReplies :
          IF rep.throw THEN Caught(r, rep, rep.msg)
          ELSE IF NotifySucceeded(rep.status)
          THEN NextCall(r, rep,
                        OutCall("comment", HardHost, req[r].auth,
                                CommentText(req[r].subject, req[r].message)),
                        "ncomment_fetch")
          ELSE Finish(r, rep, rep.status, ErrorBody(NotifyErrorMessage(rep)))
    /\ UNCHANGED <<jiraDomain, req, console, loc, files, served>>

\* mutation: only an exception counts as a failed comment
CommentFailedThrowOnly(rep) == rep.throw

\* both the else branch of commentResponse.ok and catch (commentError)
CommentFailed(rep) == rep.throw \/ ~Ok(rep.status)

NotifyCommentReply(r) ==
    /\ pc[r] = "ncomment_fetch"
    /\ \E rep \in CommentReplies :
          IF CommentFailed(rep)
          THEN Finish(r, rep, 200,
                      RespBody("success", "Notification sent but failed to save to issue history", TRUE))
          ELSE Finish(r, rep, 200,
                      RespBody("success", "Notification sent and saved to issue history", FALSE))
    /\ UNCHANGED <<jiraDomain, req, console, loc, files, served>>

----------------------------------------------------------------------------
(* POST /execute-transition *)

ExecuteTransition(r) ==
    /\ Free(r)
    /\ \E auth \in AuthValues, key \in IssueKeys :
          LET q == [BlankReq EXCEPT !.op = "execute-transition", !.auth = auth,
                                    !.issueKey = key]
          IN  /\ Accept(r, q)
              /\ IF Missing(auth)
                 THEN Reject(r, 401, "Authorization required")
                 ELSE FirstCall(r, OutCall("transition", HardHost, auth, <<>>),
                                "transition_fetch")
    /\ UNCHANGED <<jiraDomain, files>>

\* if (response.ok || response.status === 204)
TransitionSucceeded(status) == Ok(status) \/ status = 204

ExecuteTransitionReply(r) ==
    /\ pc[r] = "transition_fetch"
    /\ \E rep \in Replies :
          IF rep.throw THEN Caught(r, rep, rep.msg)
          ELSE IF TransitionSucceeded(rep.status)
          THEN Finish(r, rep, 200, RespBody("success", "", FALSE))
          ELSE Finish(r, rep, rep.status, ErrorBody(rep.btype))
    /\ UNCHANGED <<jiraDomain, req, console, loc, files, served>>

----------------------------------------------------------------------------
(* POST /create-issue *)

ProjectTypes == {"servicedesk", "software"}

\* mutation: the status of the lookup response is not looked at
LookupFailedNever(rep) == FALSE

\* if (!sdResponse.ok)
LookupFailed(rep) == ~Ok(rep.status)

CreateIssue(r) ==
    /\ Free(r)
    /\ \E auth \in AuthValues, ptype \in ProjectTypes :
          LET q == [BlankReq EXCEPT !.op = "create-issue", !.auth = auth,
                                    !.projectType = ptype]
          IN  /\ Accept(r, q)
              /\ IF Missing(auth)
                 THEN Reject(r, 401, "Authorization required")
                 ELSE IF ptype = "servicedesk"
                 THEN FirstCall(r, OutCall("sdlookup", HardHost, auth, <<>>), "sd_fetch")
                 ELSE FirstCall(r, OutCall("create", HardHost, auth, <<"issue">>),
                                "create_fetch")
    /\ UNCHANGED <<jiraDomain, files>>

CreateLookupReply(r) ==
    /\ pc[r] = "sd_fetch"
    /\ \E rep \in Replies :
          IF rep.throw THEN Caught(r, rep, rep.msg)
          ELSE IF LookupFailed(rep)
          THEN Finish(r, rep, 400, ErrorBody("Service desk not found"))
          ELSE IF rep.btype # "json"
          THEN Caught(r, rep, SyntaxErr)
          ELSE NextCall(r, rep,
                        OutCall("create", HardHost, req[r].auth, <<"request">>),
                        "create_fetch")
    /\ UNCHANGED <<jiraDomain, req, console, loc, files, served>>

CreateReply(r) ==
    /\ pc[r] = "create_fetch"
    /\ \E rep \in Replies :
          IF rep.throw THEN Caught(r, rep, rep.msg)
          ELSE IF Ok(rep.status)
          THEN IF rep.btype = "json"
               THEN Finish(r, rep, 200, RespBody("data", "", FALSE))
               ELSE Caught(r, rep, SyntaxErr)      \* JSON.parse(data) throws
          ELSE Finish(r, rep, rep.status, ErrorBody(rep.btype))
    /\ UNCHANGED <<jiraDomain, req, console, loc, files, served>>

----------------------------------------------------------------------------
(* ALL /api/* : the generic proxy *)

Methods == {"GET", "POST", "PUT", "PATCH", "DELETE"}

\* if (req.method === 'POST' || req.method === 'PUT') options.body = ...
CarriesBody(method) == method \in {"POST", "PUT"}

\* `${JIRA_DOMAIN}${jiraPath}`
ProxyHost == jiraDomain

\* inbound URLs, as the segments of the path and the query string
ProxyTargets ==
    {[path |-> <<"api", "rest", "api", "3", "myself">>, query |-> ""],
     [path |-> <<"api", "rest", "api", "3", "myself">>, query |-> "expand=groups"],
     [path |-> <<"API", "rest", "api", "3", "myself">>, query |-> ""]}

\* app.all('/api/*'): express matches routes without regard to case (the
\* app does not enable 'case sensitive routing')
Lower(segment) == IF segment = "API" THEN "api" ELSE segment
RouteMatches(path) == Len(path) >= 2 /\ Lower(path[1]) = "api"

\* req.path.replace('/api', ''): the first occurrence of the lower-case
\* text is removed, wherever it is; req.path has no query string
RECURSIVE StripApi(_)
StripApi(path) ==
    IF path = <<>> THEN <<>>
    ELSE IF Head(path) = "api" THEN Tail(path)
    ELSE <<Head(path)>> \o StripApi(Tail(path))

\* the handler, for an inbound URL among targets
ProxyRequest(r, targets) ==
    /\ Free(r)
    /\ \E auth \in ProxyAuthValues, method \in Methods, t \in targets :
          LET q == [BlankReq EXCEPT !.op = "proxy", !.auth = auth, !.method = method,
                                    !.path = t.path, !.query = t.query]
          IN  /\ RouteMatches(t.path)
              /\ Accept(r, q)
              /\ IF Missing(auth)
                 THEN Reject(r, 401, "Authorization header required")
                 ELSE FirstCall(r,
                                [OutCall("proxy", ProxyHost, auth,
                                         <<method, IF CarriesBody(method) THEN "body"
                                                   ELSE "nobody">>)
                                    EXCEPT !.path = StripApi(t.path)],
                                "proxy_fetch")
    /\ UNCHANGED <<jiraDomain, files>>

Proxy(r) == ProxyRequest(r, ProxyTargets)

\* answers to the proxied call: an empty body comes with or without the
\* header content-length: 0 (a body announced as empty is read as empty)
ProxyReplies ==
    Replies \cup {[Reply(FALSE, s, "empty", "", <<>>) EXCEPT !.clen0 = TRUE] :
                      s \in Statuses}

\* mutation: every reply goes to JSON.parse, an empty one included
ProxyBodyWrapEmpty(rep) ==
    IF rep.btype = "json"
    THEN RespBody("data", "", FALSE)
    ELSE RespBody("wrapped", rep.btype, FALSE)

\* mutation: a body that is not JSON is dropped
ProxyBodyDropText(rep) ==
    IF rep.btype = "json"
    THEN RespBody("data", "", FALSE)
    ELSE RespBody("none", "", FALSE)

\* the body relayed for a reply that arrived:
\*   "none"     res.status(..).send()
\*   "data"     res.status(..).json(JSON.parse(text))
\*   "wrapped"  res.status(..).json({ message: text, errorMessages: [text] })
ProxyBody(rep) ==
    IF rep.status = 204 \/ rep.clen0
    THEN RespBody("none", "", FALSE)
    ELSE IF rep.btype # "empty"
    THEN IF rep.btype = "json"
         THEN RespBody("data", "", FALSE)
         ELSE RespBody("wrapped", rep.btype, FALSE)
    ELSE RespBody("none", "", FALSE)

ProxyReply(r) ==
    /\ pc[r] = "proxy_fetch"
    /\ \E rep \in ProxyReplies :
          IF rep.throw
          THEN \* { error: 'Proxy error', message: error.message }
               Finish(r, rep, 500, ErrorBody(rep.msg))
          ELSE Finish(r, rep, rep.status, ProxyBody(rep))
    /\ UNCHANGED <<jiraDomain, req, console, loc, files, served>>

----------------------------------------------------------------------------

Next ==
    \E r \in Reqs :
        \/ AddComment(r)
        \/ AddCommentReply(r)
        \/ AddAttachment(r)
        \/ AddAttachmentReply(r)
        \/ AddAttachmentStall(r)
        \/ ListAttachments(r)
        \/ ListAttachmentsReply(r)
        \/ DownloadAttachment(r)
        \/ DownloadAttachmentReply(r)
        \/ GetIssueReporter(r)
        \/ GetIssueReporterReply(r)
        \/ UpdateIssueReporter(r)
        \/ UpdateSearchReply(r)
        \/ UpdateReply(r)
        \/ SendNotification(r)
        \/ NotifySearchReply(r)
        \/ NotifyReply(r)
        \/ NotifyCommentReply(r)
        \/ ExecuteTransition(r)
        \/ ExecuteTransitionReply(r)
        \/ CreateIssue(r)
        \/ CreateLookupReply(r)
        \/ CreateReply(r)
        \/ Proxy(r)
        \/ ProxyReply(r)

Spec == Init /\ [][Next]_vars

----------------------------------------------------------------------------
(* Every outbound call ends: the remote or the network eventually delivers
   a response to, or fails, the call a handler is suspended on *)

\* the outbound call of request r ends: with a response, with a request
\* error, or (the upload) with an error or abort of the response stream
CallEnds(r) ==
    \/ AddCommentReply(r)
    \/ AddAttachmentReply(r)
    \/ AddAttachmentStall(r)
    \/ ListAttachmentsReply(r)
    \/ DownloadAttachmentReply(r)
    \/ GetIssueReporterReply(r)
    \/ UpdateSearchReply(r)
    \/ UpdateReply(r)
    \/ NotifySearchReply(r)
    \/ NotifyReply(r)
    \/ NotifyCommentReply(r)
    \/ ExecuteTransitionReply(r)
    \/ CreateLookupReply(r)
    \/ CreateReply(r)
    \/ ProxyReply(r)

SpecLive == Init /\ [][Next]_vars /\ \A r \in Reqs : WF_vars(CallEnds(r))

----------------------------------------------------------------------------
(* Two requests in flight at once: node interleaves the handlers of
   concurrent requests at their await points *)

Slots == {"r1", "r2"}

\* the concurrent requests to the generic proxy all name the same URL
ConcTargets == {[path |-> <<"api", "rest", "api", "3", "myself">>, query |-> ""]}

InitConc ==
    /\ \E env \in EnvDomains :
          jiraDomain = IF env # "" THEN env ELSE DefaultHost
    /\ req   = [r \in Slots |-> BlankReq]
    /\ pc    = [r \in Slots |-> "idle"]
    /\ loc   = [r \in Slots |-> BlankLoc]
    /\ calls = [r \in Slots |-> <<>>]
    /\ resp  = [r \in Slots |-> <<>>]
    /\ files = {}
    /\ served = 0
    /\ console = [r \in Slots |-> <<>>]

NextConc ==
    \E r \in Slots :
        \/ ExecuteTransition(r)
        \/ ExecuteTransitionReply(r)
        \/ AddAttachment(r)
        \/ AddAttachmentReply(r)
        \/ AddAttachmentStall(r)
        \/ ProxyRequest(r, ConcTargets)
        \/ ProxyReply(r)

SpecConc == InitConc /\ [][NextConc]_vars

----------------------------------------------------------------------------
(* Properties *)

Handled(r)     == req[r].op # "none"
Answered(r)    == pc[r] = "done" /\ Len(resp[r]) = 1
ClientError(s) == s >= 400 /\ s <= 499
Responded(c)   == c.reply = "response"
Succeeded(c)   == c.reply = "response" /\ c.status >= 200 /\ c.status <= 299
Rejected(c)    == c.reply = "response" /\ ~(c.status >= 200 /\ c.status <= 299)
Threw(c)       == c.reply = "throw"

\* C1: in every operation a request without a credential gets a client
\* error (4xx) and no outbound call is made for it.
C1_NoCredentialNoCall ==
    \A r \in Reqs :
        (Handled(r) /\ req[r].auth = NoCred)
            => /\ calls[r] = <<>>
               /\ Answered(r)
               /\ ClientError(resp[r][1].status)

C1_Witness ==
    \E r \in Reqs :
        /\ req[r].op = "download-attachment" /\ req[r].auth = NoCred
        /\ req[r].url # ""
        /\ Answered(r) /\ resp[r][1].status = 401 /\ calls[r] = <<>>

\* C2: attachment upload: once the remote upload call has been attempted,
\* the temp file is gone when the operation completes, whether the remote
\* call succeeded, was rejected, or threw.
C2_TempFileGoneAfterUpload ==
    \A r \in Reqs :
        (req[r].op = "add-attachment" /\ pc[r] = "done" /\ Len(calls[r]) > 0)
            => req[r].file \notin files

C2_Witness ==
    \E r \in Reqs :
        /\ req[r].op = "add-attachment" /\ pc[r] = "done"
        /\ Len(calls[r]) = 1 /\ Threw(calls[r][1])
        /\ req[r].file # NoFile /\ req[r].file \notin files

\* C3: attachment upload: on every exit path on which a file was stored,
\* the early rejections included, the temp file is deleted when the response
\* has been sent.
C3_TempFileGoneOnEveryExit ==
    \A r \in Reqs :
        (req[r].op = "add-attachment" /\ req[r].file # NoFile /\ pc[r] = "done")
            => req[r].file \notin files

\* C4: reporter update: a rejected search or a search with zero matches is
\* answered with a client error and no update call; success is reported only
\* after a search with a match and a successful update call carrying that
\* match's account id.
C4_SearchFailureShortCircuits ==
    \A r \in Reqs :
        req[r].op = "update-issue-reporter" =>
            LET cs == calls[r]
            IN  /\ ( /\ Len(cs) >= 1
                     /\ \/ Rejected(cs[1])
                        \/ Succeeded(cs[1]) /\ cs[1].btype = "json" /\ Len(cs[1].users) = 0 )
                        => /\ Len(cs) = 1
                           /\ Answered(r)
                           /\ ClientError(resp[r][1].status)
                /\ (\E i \in 1..Len(resp[r]) : resp[r][i].body.kind = "success")
                        => /\ Len(cs) = 2
                           /\ cs[1].step = "search" /\ Succeeded(cs[1])
                           /\ Len(cs[1].users) > 0
                           /\ cs[2].step = "update" /\ Succeeded(cs[2])
                           /\ cs[2].arg = <<cs[1].users[1]>>

C4_Witness ==
    \E r \in Reqs :
        /\ req[r].op = "update-issue-reporter"
        /\ Len(calls[r]) = 1 /\ Succeeded(calls[r][1])
        /\ calls[r][1].btype = "json" /\ Len(calls[r][1].users) = 0
        /\ Answered(r) /\ resp[r][1].status = 400

\* C5 as stated: reporter update: a search with more than one matching user
\* is answered with a client error and no update call.
C5_AmbiguousSearchRejected ==
    \A r \in Reqs :
        ( /\ req[r].op = "update-issue-reporter"
          /\ Len(calls[r]) >= 1
          /\ Succeeded(calls[r][1]) /\ Len(calls[r][1].users) > 1 )
            => /\ Len(calls[r]) = 1
               /\ Answered(r)
               /\ ClientError(resp[r][1].status)

\* C5 amended: reporter update: a search with more than one matching user
\* is not rejected; the update call is made with the account id of the
\* first match.
C5_AmbiguousSearchTakesFirst ==
    \A r \in Reqs :
        ( /\ req[r].op = "update-issue-reporter"
          /\ Len(calls[r]) >= 1
          /\ Succeeded(calls[r][1]) /\ Len(calls[r][1].users) > 1 )
            => /\ Len(calls[r]) = 2
               /\ calls[r][2].step = "update"
               /\ calls[r][2].arg = <<calls[r][1].users[1]>>

C5_Witness ==
    \E r \in Reqs :
        /\ req[r].op = "update-issue-reporter"
        /\ Len(calls[r]) = 2 /\ Len(calls[r][1].users) = 2
        /\ calls[r][2].step = "update" /\ Succeeded(calls[r][2])
        /\ Answered(r) /\ resp[r][1].status = 200

\* C6: issue creation for project type servicedesk: a creation call is only
\* ever the second call, issued after the service-desk lookup has returned
\* a success status; after a rejected lookup there is no creation call and
\* the caller gets a client error.
C6_LookupPrecedesCreate ==
    \A r \in Reqs :
        (req[r].op = "create-issue" /\ req[r].projectType = "servicedesk") =>
            LET cs == calls[r]
            IN  /\ \A i \in 1..Len(cs) :
                       cs[i].step = "create"
                           => /\ i = 2
                              /\ cs[1].step = "sdlookup"
                              /\ Succeeded(cs[1])
                /\ (Len(cs) >= 1 /\ Rejected(cs[1]))
                       => /\ Len(cs) = 1
                          /\ Answered(r)
                          /\ ClientError(resp[r][1].status)

C6_Witness ==
    \E r \in Reqs :
        /\ req[r].op = "create-issue" /\ req[r].projectType = "servicedesk"
        /\ Len(calls[r]) = 2 /\ calls[r][2].step = "create"
        /\ Responded(calls[r][2]) /\ pc[r] = "done"

\* C7: notification send: when the notify call succeeded and the follow-up
\* comment call failed (rejected or threw), the caller gets status 200 with
\* success true and a warning.
C7_CommentFailureIsWarning ==
    \A r \in Reqs :
        req[r].op = "send-notification" =>
            \A i \in 1..Len(calls[r]) :
                ( /\ i > 1
                  /\ calls[r][i].step = "comment"
                  /\ calls[r][i - 1].step = "notify" /\ Succeeded(calls[r][i - 1])
                  /\ (Rejected(calls[r][i]) \/ Threw(calls[r][i])) )
                    => /\ Answered(r)
                       /\ resp[r][1].status = 200
                       /\ resp[r][1].body.kind = "success"
                       /\ resp[r][1].body.warning

C7_Witness ==
    \E r \in Reqs :
        /\ req[r].op = "send-notification"
        /\ Len(calls[r]) = 3
        /\ calls[r][2].step = "notify" /\ Succeeded(calls[r][2])
        /\ calls[r][3].step = "comment" /\ Rejected(calls[r][3])
        /\ Answered(r) /\ resp[r][1].body.warning

\* C8: notification send: a comment call is only issued right after a notify
\* call that returned success; after a rejected or throwing notify call no
\* further call is made; after a successful notify call exactly one comment
\* call follows.
C8_CommentOnlyAfterNotifySuccess ==
    \A r \in Reqs :
        req[r].op = "send-notification" =>
            LET cs == calls[r]
            IN  /\ \A i \in 1..Len(cs) :
                       cs[i].step = "comment"
                           => /\ i > 1
                              /\ cs[i - 1].step = "notify"
                              /\ Succeeded(cs[i - 1])
                /\ \A i \in 1..Len(cs) :
                       (cs[i].step = "notify" /\ cs[i].reply # "pending")
                           => IF Succeeded(cs[i])
                              THEN Len(cs) = i + 1 /\ cs[i + 1].step = "comment"
                              ELSE Len(cs) = i
                /\ Cardinality({i \in 1..Len(cs) : cs[i].step = "comment"}) <= 1
                /\ Cardinality({i \in 1..Len(cs) : cs[i].step = "notify"}) <= 1

C8_Witness ==
    \E r \in Reqs :
        /\ req[r].op = "send-notification"
        /\ Len(calls[r]) = 4
        /\ calls[r][3].step = "notify" /\ calls[r][3].status = 204
        /\ calls[r][4].step = "comment" /\ Responded(calls[r][4])
        /\ pc[r] = "done"

\* C9: every outbound call of every operation goes to one and the same host,
\* fixed at startup; nothing in the inbound request changes the host the
\* credential is sent to.
C9_OneFixedHost ==
    \E h \in {jiraDomain, HardHost} :
        \A r \in Reqs :
            \A i \in 1..Len(calls[r]) : calls[r][i].host = h

\* C10 as stated: in every operation, when an outbound call threw, the
\* caller gets status 500 with the exception's message.
C10_EveryThrowIsServerError ==
    \A r \in Reqs :
        (pc[r] = "done" /\ \E i \in 1..Len(calls[r]) : Threw(calls[r][i]))
            => \E i \in 1..Len(calls[r]) :
                   /\ Threw(calls[r][i])
                   /\ Len(resp[r]) = 1
                   /\ resp[r][1].status = 500
                   /\ resp[r][1].body.kind = "error"
                   /\ resp[r][1].body.text = calls[r][i].msg

\* the two best-effort calls of send-notification
BestEffort(r, c) ==
    req[r].op = "send-notification" /\ c.step \in {"search", "comment"}

\* C10 amended: a throwing outbound call ends the handler with status 500
\* and the exception's message, except for the two best-effort calls of
\* send-notification: after a throwing user search the handler goes on with
\* its next call, and a throwing follow-up comment call gives status 200
\* with success true and a warning.
C10_ThrowIsServerErrorUnlessBestEffort ==
    \A r \in Reqs :
        \A i \in 1..Len(calls[r]) :
            Threw(calls[r][i]) =>
                LET c == calls[r][i]
                IN  IF ~BestEffort(r, c)
                    THEN /\ i = Len(calls[r])
                         /\ Answered(r)
                         /\ resp[r][1].status = 500
                         /\ resp[r][1].body.kind = "error"
                         /\ resp[r][1].body.text = c.msg
                    ELSE IF c.step = "search"
                    THEN /\ Len(calls[r]) > i
                         /\ calls[r][i + 1].step \in {"search", "notify"}
                    ELSE /\ i = Len(calls[r])
                         /\ Answered(r)
                         /\ resp[r][1].status = 200
                         /\ resp[r][1].body.kind = "success"
                         /\ resp[r][1].body.warning

C10_Witness ==
    \E r \in Reqs :
        /\ req[r].op = "send-notification"
        /\ Len(calls[r]) = 2
        /\ calls[r][1].step = "search" /\ Threw(calls[r][1])
        /\ calls[r][2].step = "notify" /\ Threw(calls[r][2])
        /\ Answered(r) /\ resp[r][1].status = 500
        /\ resp[r][1].body.text = calls[r][2].msg

\* the response body b hands on the body of the remote reply to call c:
\* its text wrapped in an error or message object, the parsed JSON, or no
\* body for an empty one
Carries(b, c) ==
    \/ b.kind \in {"error", "wrapped"} /\ b.text = c.btype
    \/ b.kind = "data" /\ c.btype = "json"
    \/ b.kind = "none" /\ c.btype = "empty"

C12_AtMostTwoCalls ==
    \A r \in Reqs : Len(calls[r]) <= 2

\* C12 amended: an inbound request causes at most two outbound calls, except
\* a send-notification request, which causes at most one user search per
\* listed additional email plus the notify call and the follow-up comment.
C12_CallsBounded ==
    \A r \in Reqs :
        Len(calls[r]) <= IF req[r].op = "send-notification"
                         THEN Len(req[r].emails) + 2
                         ELSE 2

C12_Witness ==
    \E r \in Reqs :
        /\ req[r].op = "send-notification"
        /\ Len(req[r].emails) = 2
        /\ Answered(r)
        /\ Len(calls[r]) = 4

\* the calls of request r that are user searches
Searches(r) == {i \in 1..Len(calls[r]) : calls[r][i].step = "search"}

\* C13: no remote step is executed twice for one inbound request (the user
\* search once per listed email, in list order), so a failed call is never
\* issued again.
C13_NoRetry ==
    \A r \in Reqs :
        /\ \A i, j \in 1..Len(calls[r]) :
              (i < j /\ calls[r][i].step = calls[r][j].step)
                  => /\ calls[r][i].step = "search"
                     /\ req[r].op = "send-notification"
        /\ req[r].op = "send-notification"
              => /\ Cardinality(Searches(r)) <= Len(req[r].emails)
                 /\ \A i \in Searches(r) : calls[r][i].arg = <<req[r].emails[i]>>

C13_Witness ==
    \E r \in Reqs :
        /\ req[r].op = "send-notification"
        /\ Len(req[r].emails) = 2
        /\ Len(calls[r]) >= 3
        /\ Threw(calls[r][1])
        /\ Rejected(calls[r][2])
        /\ Answered(r)

\* C14: an inbound request gets at most one response, and exactly one once
\* its handler has finished.
C14_ExactlyOneResponse ==
    \A r \in Reqs :
        /\ Len(resp[r]) <= 1
        /\ pc[r] = "done" => Len(resp[r]) = 1

C14_Witness ==
    \E r \in Reqs :
        /\ req[r].op = "create-issue"
        /\ pc[r] = "done"
        /\ Len(calls[r]) = 2
        /\ Len(resp[r]) = 1

\* C16: every outbound call carries, as its Authorization header, the
\* credential the caller supplied, unchanged.
C16_CredentialForwarded ==
    \A r \in Reqs :
        \A i \in 1..Len(calls[r]) : calls[r][i].auth = req[r].auth

C16_Witness ==
    \E r \in Reqs :
        /\ req[r].op = "send-notification"
        /\ req[r].auth = "Basic credB"
        /\ Len(calls[r]) = 4
        /\ \A i \in 1..4 : calls[r][i].auth = "Basic credB"

\* C19: generic proxy, any method: a remote reply without content (status
\* 204, content-length 0, or an empty body) is relayed as a response without
\* a body, with the remote status.
C19_NoContentRelayedBodiless ==
    \A r \in Reqs :
        (/\ req[r].op = "proxy"
         /\ Len(calls[r]) = 1
         /\ Responded(calls[r][1])
         /\ \/ calls[r][1].status = 204
            \/ calls[r][1].clen0
            \/ calls[r][1].btype = "empty")
            => /\ Answered(r)
               /\ resp[r][1].status = calls[r][1].status
               /\ resp[r][1].body.kind = "none"

C19_Witness ==
    \E r \in Reqs :
        /\ req[r].op = "proxy"
        /\ req[r].method = "DELETE"
        /\ Len(calls[r]) = 1
        /\ Responded(calls[r][1])
        /\ calls[r][1].status = 404
        /\ calls[r][1].btype = "empty"
        /\ ~calls[r][1].clen0
        /\ Answered(r)
        /\ resp[r][1].body.kind = "none"

\* C20: generic proxy: a non-empty remote body that is not JSON is relayed
\* as an object holding the raw text, and a JSON body is relayed parsed,
\* both with the remote status.
C20_BodyNeverDropped ==
    \A r \in Reqs :
        (/\ req[r].op = "proxy"
         /\ Len(calls[r]) = 1
         /\ Responded(calls[r][1])
         /\ calls[r][1].btype # "empty")
            => /\ Answered(r)
               /\ resp[r][1].status = calls[r][1].status
               /\ IF calls[r][1].btype = "json"
                  THEN resp[r][1].body.kind = "data"
                  ELSE /\ resp[r][1].body.kind = "wrapped"
                       /\ resp[r][1].body.text = calls[r][1].btype

C20_Witness ==
    \E r \in Reqs :
        /\ req[r].op = "proxy"
        /\ Len(calls[r]) = 1
        /\ Responded(calls[r][1])
        /\ calls[r][1].status = 404
        /\ calls[r][1].btype = "text"
        /\ Answered(r)
        /\ resp[r][1].status = 404
        /\ resp[r][1].body.kind = "wrapped"

\* C18: an add-comment request with text T causes exactly one outbound call:
\* to the comment endpoint of the issue named in the request, with a body
\* document of type doc, version 1, that holds one paragraph holding one
\* text node whose text is T.
C18_CommentDocument ==
    \A r \in Reqs :
        (req[r].op = "add-comment" /\ req[r].auth # NoCred)
            => /\ Len(calls[r]) = 1
               /\ LET c == calls[r][1]
                  IN  /\ c.step = "comment"
                      /\ c.path = <<"rest", "api", "3", "issue", req[r].issueKey, "comment">>
                      /\ c.doc.type = "doc"
                      /\ c.doc.version = 1
                      /\ Len(c.doc.content) = 1
                      /\ c.doc.content[1].type = "paragraph"
                      /\ Len(c.doc.content[1].content) = 1
                      /\ c.doc.content[1].content[1].type = "text"
                      /\ c.doc.content[1].content[1].text = req[r].message

C18_Witness ==
    \E r \in Reqs :
        /\ req[r].op = "add-comment"
        /\ req[r].issueKey = "K-2"
        /\ req[r].message = "Bye"
        /\ Answered(r)
        /\ Len(calls[r]) = 1
        /\ calls[r][1].doc.content[1].content[1].text = "Bye"

\* everything the handler of the request in slot r has read or written
Local(r) == <<req[r], pc[r], loc[r], calls[r], resp[r], console[r]>>

\* C15: requests handled at the same time do not interfere: a step of one
\* handler leaves the request, position, locals, calls, response and log of
\* every other request as they were, a temp file is deleted only by the
\* handler of the request it was stored for, and so the temp file of an
\* upload in progress is still there.
C15_NoInterference ==
    /\ [][/\ \A r1, r2 \in Slots :
                r1 # r2 => (Local(r1)' = Local(r1) \/ Local(r2)' = Local(r2))
          /\ \A f \in files \ files' :
                \E r \in Slots : req[r].file = f /\ calls'[r] # calls[r]]_vars
    /\ [](\A r \in Slots : pc[r] = "upload" => req[r].file \in files)

C15_Witness ==
    \E r1, r2 \in Slots :
        /\ req[r1].op = "add-attachment" /\ req[r2].op = "add-attachment"
        /\ req[r2].file # NoFile /\ req[r2].file < req[r1].file
        /\ pc[r1] = "done" /\ Len(calls[r1]) = 1 /\ Succeeded(calls[r1][1])
        /\ req[r1].file \notin files
        /\ pc[r2] = "upload" /\ req[r2].file \in files

\* the requests q1 and q2 both carry a credential and differ in nothing but
\* the credential (and the name under which an uploaded file was stored)
DifferInCredentialOnly(q1, q2) ==
    /\ q1.auth # NoCred /\ q2.auth # NoCred /\ q1.auth # q2.auth
    /\ (q1.file = NoFile) <=> (q2.file = NoFile)
    /\ [q1 EXCEPT !.auth = NoCred, !.file = NoFile]
          = [q2 EXCEPT !.auth = NoCred, !.file = NoFile]

\* what the remote answered to call c, and what call c asked apart from its
\* Authorization header
ReplyPart(c) == <<c.reply, c.status, c.btype, c.msg, c.users, c.shape, c.clen0>>
CallPart(c)  == <<c.step, c.host, c.arg, c.path, c.doc>>

Ended(r) == pc[r] \in {"done", "upload_hung"}

\* two finished requests that differ only in the credential and whose calls,
\* as far as both made them, were answered alike
Twins(r1, r2) ==
    /\ r1 # r2
    /\ DifferInCredentialOnly(req[r1], req[r2])
    /\ Ended(r1) /\ Ended(r2)
    /\ \A i \in 1..Len(calls[r1]) :
          i <= Len(calls[r2]) => ReplyPart(calls[r1][i]) = ReplyPart(calls[r2][i])

\* such twins took the same path, made the same calls apart from the
\* Authorization header, and sent the same response
SameBehaviour(r1, r2) ==
    /\ pc[r1] = pc[r2]
    /\ Len(calls[r1]) = Len(calls[r2])
    /\ \A i \in 1..Len(calls[r1]) : CallPart(calls[r1][i]) = CallPart(calls[r2][i])
    /\ resp[r1] = resp[r2]

C21_BodyForMutatingMethods ==
    \A r \in Reqs :
        (req[r].op = "proxy" /\ Len(calls[r]) = 1)
            => /\ calls[r][1].arg[1] = req[r].method
               /\ calls[r][1].arg[2] = "body"
                     <=> req[r].method \in {"POST", "PUT", "PATCH", "DELETE"}

\* C21, what the code does: the outbound request has the inbound method and
\* carries a body exactly for POST and PUT; a PATCH or DELETE request goes
\* out without the inbound body.
C21_BodyForPostAndPut ==
    \A r \in Reqs :
        (req[r].op = "proxy" /\ Len(calls[r]) = 1)
            => /\ calls[r][1].arg[1] = req[r].method
               /\ calls[r][1].arg[2] = "body"
                     <=> req[r].method \in {"POST", "PUT"}

C21_PatchWithoutBody ==
    \E r \in Reqs :
        /\ req[r].op = "proxy"
        /\ req[r].method = "PATCH"
        /\ Len(calls[r]) = 1
        /\ calls[r][1].arg = <<"PATCH", "nobody">>
        /\ Answered(r)

\* the request q lacks one of the fields its handler tests for
LacksField(q) ==
    \/ q.op = "add-attachment" /\ q.file = NoFile
    \/ q.op = "download-attachment" /\ q.url = ""
    \/ q.op = "update-issue-reporter" /\ q.email = ""
    \/ q.op = "send-notification" /\ (q.subject = "" \/ q.message = "")

\* C22: a request with a credential but without a required field (the file
\* of add-attachment, the URL of download-attachment, the reporter email of
\* update-issue-reporter, the subject or the message of send-notification)
\* gets a client error and causes no outbound call.
C22_MissingFieldNoCall ==
    \A r \in Reqs :
        (req[r].auth # NoCred /\ LacksField(req[r]))
            => /\ Len(calls[r]) = 0
               /\ Answered(r)
               /\ ClientError(resp[r][1].status)

C22_Witness ==
    \E r \in Reqs :
        /\ req[r].op = "send-notification"
        /\ req[r].auth # NoCred
        /\ req[r].subject # "" /\ req[r].message = ""
        /\ Len(req[r].emails) > 0
        /\ Answered(r)
        /\ resp[r][1].status = 400
        /\ Len(calls[r]) = 0

\* the first matches of the first n calls of cs, in order: a call counts
\* when it was answered with a success status and a non-empty user array
RECURSIVE FirstMatches(_, _)
FirstMatches(cs, n) ==
    IF n = 0 THEN <<>>
    ELSE FirstMatches(cs, n - 1)
         \o (IF /\ cs[n].reply = "response"
                /\ cs[n].status >= 200 /\ cs[n].status <= 299
                /\ cs[n].btype = "json"
                /\ Len(cs[n].users) > 0
             THEN <<cs[n].users[1]>>
             ELSE <<>>)

\* C23: in send-notification every user search that has ended, however it
\* ended, is followed by the next call; the notify call comes after one
\* search per additional email, and its payload lists exactly the first
\* matches of the searches that resolved, in input order, with no users
\* list when none resolved.
C23_UnresolvedEmailsSkipped ==
    \A r \in Reqs :
        req[r].op = "send-notification" =>
            \A i \in 1..Len(calls[r]) :
                /\ (calls[r][i].step = "search" /\ calls[r][i].reply # "pending")
                      => Len(calls[r]) > i
                /\ calls[r][i].step = "notify"
                      => /\ i = Len(req[r].emails) + 1
                         /\ calls[r][i].arg =
                               IF FirstMatches(calls[r], i - 1) = <<>>
                               THEN <<>>
                               ELSE <<"users">> \o FirstMatches(calls[r], i - 1)

C23_Witness ==
    \E r \in Reqs :
        /\ req[r].op = "send-notification"
        /\ Len(req[r].emails) = 2
        /\ Len(calls[r]) >= 3
        /\ Succeeded(calls[r][1]) /\ Len(calls[r][1].users) = 2
        /\ Rejected(calls[r][2])
        /\ calls[r][3].step = "notify"
        /\ calls[r][3].arg = <<"users", calls[r][1].users[1]>>
        /\ Answered(r)

\* a notification none of whose emails resolved goes out without a users list
C23_NoneResolved ==
    \E r \in Reqs :
        /\ req[r].op = "send-notification"
        /\ Len(req[r].emails) = 2
        /\ Len(calls[r]) >= 3
        /\ Threw(calls[r][1])
        /\ Succeeded(calls[r][2]) /\ calls[r][2].btype = "json"
        /\ Len(calls[r][2].users) = 0
        /\ calls[r][3].step = "notify" /\ calls[r][3].arg = <<>>

RequestedFields == {"reporter", "assignee", "creator", "summary"}

\* the remote answered the only call of request r with a success status and
\* a JSON body that has a fields object
ReporterFound(r) ==
    /\ req[r].op = "get-issue-reporter"
    /\ Len(calls[r]) = 1
    /\ Succeeded(calls[r][1])
    /\ calls[r][1].btype = "json"
    /\ calls[r][1].shape # "nofields"

\* C24 as stated: on remote success the response of get-issue-reporter is a
\* flat object with exactly the four requested keys, each with the remote value.
C24_ExactlyFourKeys ==
    \A r \in Reqs :
        ReporterFound(r)
            => /\ Answered(r)
               /\ resp[r][1].status = 200
               /\ DOMAIN resp[r][1].body.obj = RequestedFields
               /\ \A k \in RequestedFields :
                     resp[r][1].body.obj[k] = RemoteFields(calls[r][1].shape)[k]

\* C24 amended: on remote success with an issue body the response of
\* get-issue-reporter has status 200 and is a flat object with five keys:
\* key, holding the key of the remote issue, and the four requested fields,
\* each holding the remote value; a success body without a fields object
\* gives status 500.
C24_KeyAndFourFields ==
    \A r \in Reqs :
        /\ ReporterFound(r)
              => /\ Answered(r)
                 /\ resp[r][1].status = 200
                 /\ DOMAIN resp[r][1].body.obj = RequestedFields \cup {"key"}
                 /\ resp[r][1].body.obj["key"] = RemoteKey
                 /\ \A k \in RequestedFields :
                       resp[r][1].body.obj[k] = RemoteFields(calls[r][1].shape)[k]
        /\ (/\ req[r].op = "get-issue-reporter"
            /\ Len(calls[r]) = 1
            /\ Succeeded(calls[r][1])
            /\ calls[r][1].shape = "nofields")
              => (Answered(r) /\ resp[r][1].status = 500)

C24_Witness ==
    \E r \in Reqs :
        /\ ReporterFound(r)
        /\ calls[r][1].shape = "unassigned"
        /\ Answered(r)
        /\ resp[r][1].body.obj["assignee"] = "null"
        /\ resp[r][1].body.obj["key"] = "K-1"

\* C25: when the remote call of list-attachments succeeds, the caller gets
\* status 200 with the attachment array of the issue as it is, and with an
\* empty array when the issue has no attachment field or no fields object.
C25_AttachmentsOrEmpty ==
    \A r \in Reqs :
        (/\ req[r].op = "list-attachments"
         /\ Len(calls[r]) = 1
         /\ Succeeded(calls[r][1])
         /\ calls[r][1].btype = "json")
            => /\ Answered(r)
               /\ resp[r][1].status = 200
               /\ resp[r][1].body.kind = "data"
               /\ resp[r][1].body.items =
                     IF calls[r][1].shape \in {"noattachment", "nofields"}
                     THEN <<>>
                     ELSE calls[r][1].items

C25_Witness ==
    \E r \in Reqs :
        /\ req[r].op = "list-attachments"
        /\ Len(calls[r]) = 1
        /\ Succeeded(calls[r][1])
        /\ calls[r][1].shape = "nofields"
        /\ Answered(r)
        /\ resp[r][1].status = 200
        /\ resp[r][1].body.items = <<>>

C25_TwoAttachments ==
    \E r \in Reqs :
        /\ req[r].op = "list-attachments"
        /\ Len(calls[r]) = 1
        /\ Succeeded(calls[r][1])
        /\ calls[r][1].items = <<"att1", "att2">>
        /\ Answered(r)
        /\ resp[r][1].body.items = <<"att1", "att2">>

\* C26: a request never has two outbound calls in flight: only its last call
\* can be awaiting its reply. In send-notification the i-th call is the
\* search for the i-th additional email, and the notify call is issued after
\* the searches for all of them, each of which has ended by then.
C26_OneCallInFlight ==
    \A r \in Reqs :
        /\ \A i \in 1..Len(calls[r]) :
              calls[r][i].reply = "pending" => i = Len(calls[r])
        /\ req[r].op = "send-notification"
              => \A i \in 1..Len(calls[r]) :
                    /\ i <= Len(req[r].emails)
                          => /\ calls[r][i].step = "search"
                             /\ calls[r][i].arg = <<req[r].emails[i]>>
                    /\ calls[r][i].step = "notify"
                          => /\ i = Len(req[r].emails) + 1
                             /\ \A j \in 1..(i - 1) : calls[r][j].reply # "pending"

C26_Witness ==
    \E r \in Reqs :
        /\ req[r].op = "send-notification"
        /\ Len(req[r].emails) = 2
        /\ pc[r] = "nsearch_fetch"
        /\ Len(calls[r]) = 2
        /\ calls[r][1].reply # "pending"
        /\ calls[r][2].reply = "pending"
        /\ calls[r][2].arg = <<req[r].emails[2]>>

\* the handler of request r has been entered and has not finished
InFlight(r) == pc[r] \notin {"idle", "done"}

\* C27: provided every outbound call ends (response, request error,
\* response-stream error or abort), every inbound request eventually gets
\* its response.
C27_EveryRequestAnswered ==
    \A r \in Reqs : InFlight(r) ~> Answered(r)

\* the upload whose response stream failed: its call has ended, its handler
\* is still suspended, and no response was sent
C27_UploadHung ==
    \E r \in Reqs :
        /\ pc[r] = "upload_hung"
        /\ calls[r][1].reply = "aborted"
        /\ Len(resp[r]) = 0

\* C27, what the code does: every request other than such an upload gets
\* its response.
C27_AnsweredUnlessUploadHung ==
    \A r \in Reqs : InFlight(r) ~> (Answered(r) \/ pc[r] = "upload_hung")

RelayingOps ==
    {"add-comment", "list-attachments", "get-issue-reporter", "execute-transition",
     "create-issue"}

\* the last call of request r is the final call of its operation and the
\* remote answered it with a success status
FinalCallSucceeded(r) ==
    /\ Len(calls[r]) > 0
    /\ Succeeded(calls[r][Len(calls[r])])
    /\ calls[r][Len(calls[r])].step # "sdlookup"

\* C28: in add-comment, list-attachments, get-issue-reporter,
\* execute-transition and create-issue, a success status of the final remote
\* call gives the caller status 200, whatever the remote's body is.
C28_SuccessIsAlways200 ==
    \A r \in Reqs :
        (req[r].op \in RelayingOps /\ FinalCallSucceeded(r))
            => (Answered(r) /\ resp[r][1].status = 200)

\* C28, what the code does: this holds of execute-transition, which does not
\* read the body, and of the other four for a body that is JSON.
C28_SuccessIs200ForJson ==
    \A r \in Reqs :
        (/\ req[r].op \in RelayingOps
         /\ FinalCallSucceeded(r)
         /\ \/ req[r].op = "execute-transition"
            \/ /\ calls[r][Len(calls[r])].btype = "json"
               /\ calls[r][Len(calls[r])].shape # "nofields")
            => (Answered(r) /\ resp[r][1].status = 200)

\* a comment the remote accepted without a body is reported as a failure
C28_EmptySuccessIs500 ==
    \E r \in Reqs :
        /\ req[r].op = "add-comment"
        /\ Len(calls[r]) = 1
        /\ Succeeded(calls[r][1])
        /\ calls[r][1].btype = "empty"
        /\ Answered(r)
        /\ resp[r][1].status = 500

\* C29: the generic proxy's outbound URL is the configured base URL followed
\* by the inbound path without its leading /api segment; the query string
\* has no part in it.
C29_LeadingPrefixRemoved ==
    \A r \in Reqs :
        (req[r].op = "proxy" /\ Len(calls[r]) = 1)
            => /\ calls[r][1].host = jiraDomain
               /\ calls[r][1].path = Tail(req[r].path)

\* C29, what the code does: this holds of an inbound path that starts with
\* /api in lower case, with or without a query string.
C29_LowerCasePrefixRemoved ==
    \A r \in Reqs :
        (req[r].op = "proxy" /\ Len(calls[r]) = 1 /\ req[r].path[1] = "api")
            => /\ calls[r][1].host = jiraDomain
               /\ calls[r][1].path = Tail(req[r].path)

\* a request to /API/rest/api/3/myself goes out as /API/rest/3/myself
C29_InnerSegmentRemoved ==
    \E r \in Reqs :
        /\ req[r].op = "proxy"
        /\ req[r].path = <<"API", "rest", "api", "3", "myself">>
        /\ Len(calls[r]) = 1
        /\ calls[r][1].path = <<"API", "rest", "3", "myself">>

\* the error message C30 describes for a rejected notify call c: the joined
\* errorMessages list when it is non-empty, otherwise the serialized errors
\* object when there is one, otherwise the raw body text
DescribedMessage(c) ==
    IF c.btype # "json" THEN c.btype
    ELSE IF c.shape \in {"msgs", "both"} THEN "messages"
    ELSE IF c.shape = "errors" THEN "errors"
    ELSE c.btype

RejectedNotify(r) ==
    /\ req[r].op = "send-notification"
    /\ Len(calls[r]) > 0
    /\ calls[r][Len(calls[r])].step = "notify"
    /\ Rejected(calls[r][Len(calls[r])])

\* C30: when the notify call is rejected, the response has the remote status
\* and, as its error, the message described above.
C30_NotifyErrorMessage ==
    \A r \in Reqs :
        RejectedNotify(r)
            => /\ Answered(r)
               /\ resp[r][1].status = calls[r][Len(calls[r])].status
               /\ resp[r][1].body.kind = "error"
               /\ resp[r][1].body.text = DescribedMessage(calls[r][Len(calls[r])])

\* C30, what the code does: the remote status is relayed in every case, and
\* the described message when the body is not JSON or has neither list nor
\* object, or has an errors object and no message list.
C30_StatusRelayed ==
    \A r \in Reqs :
        RejectedNotify(r)
            => /\ Answered(r)
               /\ resp[r][1].status = calls[r][Len(calls[r])].status
               /\ calls[r][Len(calls[r])].shape \notin {"msgs", "both"}
                     => resp[r][1].body.text = DescribedMessage(calls[r][Len(calls[r])])

\* a rejection that carries only a list of error messages is answered
\* without any error text
C30_MessagesLost ==
    \E r \in Reqs :
        /\ RejectedNotify(r)
        /\ calls[r][Len(calls[r])].shape = "msgs"
        /\ Answered(r)
        /\ resp[r][1].body.text = "undefined"

====
